---- MODULE Spec2Model ----
(***************************************************************************)
(* Model of the task poller of bfl-api: BflAPI.waitForResult, the single   *)
(* status fetch BflAPI.getResult it calls, and the error mapping of        *)
(* BflAPI._makeRequest the fetch goes through.                             *)
(*                                                                         *)
(* Time is counted in whole seconds.  An error message is a sequence of    *)
(* tokens; String.prototype.includes is subsequence search on the tokens.  *)
(***************************************************************************)
EXTENDS Integers, Sequences, FiniteSets, TLC

\* ------------------------------------------------------------------ bounds
\* Largest timeout option (seconds) a session is started with.
MaxTimeout == 3
\* Largest pollInterval option (seconds) a session is started with.
MaxPollInterval == 2
\* Largest maxRetries option a session is started with.
MaxRetriesOpt == 2
\* Longest time (seconds) an answered status fetch takes.
MaxFetchDur == 1
\* Longest time (seconds) a timer fires after its delay has passed.
MaxLate == 0
\* Longest API key (characters) a client is constructed with.
MaxKeyLen == 8
\* Most image options one command is given.
MaxImages == 2
\* Most prompts one command is given.
MaxPrompts == 3

\* ------------------------------------------------------- program constants
\* axios timeout of _makeRequest: 30000 ms.
REQUEST_TIMEOUT == 30

\* ---------------------------------------------------------------- strings
\* includes(msg, pat): pat occurs in msg as a contiguous run of tokens.
includes(msg, pat) ==
    \E i \in 1..(Len(msg) - Len(pat) + 1) : SubSeq(msg, i, i + Len(pat) - 1) = pat

\* ------------------------------------------------------- the remote service
\* Task states the service reports, and one value outside the five.
Statuses ==
    {"Pending", "Request Moderated", "Ready", "Error", "Content Moderated", "Queued"}

\* Free text the service puts in result.error or in an error body's detail.
\* <<>> is an absent text.
Texts ==
    { <<>>,
      <<"invalid", "input">>,
      <<"width", "503", "not", "allowed">>,
      <<"prompt", "was", "moderated">>,
      <<"gateway", "503", "Content", "Moderated">> }

\* HTTP status codes of a failed request.
HttpCodes == {401, 422, 429, 500, 502, 503}

\* Failures without an HTTP response.
NetErrors == {"reset", "hangup", "connTimeout", "reqTimeout", "refused"}

NoResp == [kind |-> "none", status |-> "", code |-> 0, net |-> "", text |-> <<>>]

\* Everything one status fetch can end with.
Responses ==
    {[kind |-> "ok", status |-> s, code |-> 200, net |-> "", text |-> <<>>] :
        s \in Statuses \ {"Error"}}
    \cup {[kind |-> "ok", status |-> "Error", code |-> 200, net |-> "", text |-> t] :
        t \in Texts}
    \cup {[kind |-> "http", status |-> "", code |-> c, net |-> "", text |-> t] :
        c \in HttpCodes, t \in Texts}
    \cup {[kind |-> "net", status |-> "", code |-> 0, net |-> n, text |-> <<>>] :
        n \in NetErrors}

\* The message of the error a transport failure comes with.
TransportMessage(n) ==
    CASE n = "reset"       -> <<"read", "ECONNRESET">>
      [] n = "hangup"      -> <<"socket hang up">>
      [] n = "connTimeout" -> <<"connect", "ETIMEDOUT">>
      [] n = "reqTimeout"  -> <<"timeout of", ToString(REQUEST_TIMEOUT * 1000), "ms exceeded">>
      [] n = "refused"     -> <<"Network Error -", "ECONNREFUSED">>

\* The message of the error axios rejects with.
AxiosMessage(resp) ==
    IF resp.kind = "http"
    THEN <<"Request failed with status code", ToString(resp.code)>>
    ELSE TransportMessage(resp.net)

\* ------------------------------------------------------- the request facade
genericMessages(status) ==
    CASE status = 400 -> <<"Invalid request parameters">>
      [] status = 401 -> <<"Authentication failed">>
      [] status = 403 -> <<"Access forbidden">>
      [] status = 404 -> <<"Resource not found">>
      [] status = 422 -> <<"Invalid parameters">>
      [] status = 429 -> <<"Rate limit exceeded">>
      [] status = 500 -> <<"Service error">>
      [] status = 502 -> <<"Service temporarily unavailable">>
      [] status = 503 -> <<"Service temporarily unavailable">>
      [] OTHER -> <<"An error occurred">>

sanitizeErrorMessage(resp, prod) ==
    IF prod
    THEN genericMessages(resp.code)
    ELSE IF resp.text # <<>> THEN resp.text ELSE AxiosMessage(resp)

\* The message of the error _makeRequest throws for a failed request.
makeRequestError(resp, prod) ==
    IF resp.kind = "http"
    THEN CASE resp.code = 401 ->
                <<"Authentication failed. Please check your API key.">>
           [] resp.code = 422 ->
                <<"Invalid parameters:">> \o sanitizeErrorMessage(resp, prod)
           [] resp.code = 429 ->
                <<"Rate limit exceeded. Please wait before making more requests.">>
           [] resp.code \in {502, 503} ->
                <<"Service temporarily unavailable (", ToString(resp.code), "). Please retry.">>
           [] OTHER ->
                <<"HTTP", ToString(resp.code), ":">> \o sanitizeErrorMessage(resp, prod)
    ELSE AxiosMessage(resp)

\* The message of the error getResult throws for a failed fetch: with a polling
\* URL it is the error of the bare axios.get, without one that of _makeRequest.
getResultError(resp, url, prod) ==
    IF url THEN AxiosMessage(resp) ELSE makeRequestError(resp, prod)

\* What _makeRequest hands to axios: the headers, and the settings timeout
\* (REQUEST_TIMEOUT) and maxRedirects (5) of its config object.
makeRequestConfig ==
    [headers |-> {"accept", "x-key", "Content-Type"},
     settings |-> {"timeout", "maxRedirects"}]

\* What getResult hands to axios for one status fetch.
getResultConfig(url) ==
    IF url
    THEN [headers |-> {"accept", "x-key"}, settings |-> {}]
    ELSE makeRequestConfig

\* ------------------------------------------------------------- the poller
TimeoutMessage(t) == <<"Timeout after", ToString(t), "seconds">>

\* Variant: the failure text is raised without the Generation failed prefix.
GenerationFailedMessage_NoPrefix(resp) ==
    IF resp.text # <<>> THEN resp.text ELSE <<"Unknown error">>

GenerationFailedMessage(resp) ==
    <<"Generation failed:">> \o (IF resp.text # <<>> THEN resp.text ELSE <<"Unknown error">>)

ContentModeratedMessage == <<"Content was", "moderated", ". Please revise your prompt.">>

\* Variant: the check written with >= instead of >.
TimedOut_AtBound(elapsed, t) == elapsed >= t

\* The timeout check at the head of the loop.
TimedOut(elapsed, t) == elapsed > t

\* Variant: the Content Moderated branch is missing.
StatusDispatch_ModeratedContinues(resp) ==
    IF resp.status = "Ready" THEN "return"
    ELSE IF resp.status = "Error" THEN "throw"
    ELSE "continue"

\* Variant: Ready is compared in the wrong letter case.
StatusDispatch_ReadyMisspelt(resp) ==
    IF resp.status = "ready" THEN "return"
    ELSE IF resp.status = "Error" THEN "throw"
    ELSE IF resp.status = "Content Moderated" THEN "throw"
    ELSE "continue"

\* Variant: every moderated status takes the Content Moderated branch.
StatusDispatch_AnyModeratedThrows(resp) ==
    IF resp.status = "Ready" THEN "return"
    ELSE IF resp.status = "Error" THEN "throw"
    ELSE IF resp.status \in {"Content Moderated", "Request Moderated"} THEN "throw"
    ELSE "continue"

\* Variant: a status that is none of the known ones ends the polling.
StatusDispatch_UnknownReturns(resp) ==
    IF resp.status = "Ready" THEN "return"
    ELSE IF resp.status = "Error" THEN "throw"
    ELSE IF resp.status = "Content Moderated" THEN "throw"
    ELSE IF resp.status \in {"Pending", "Request Moderated"} THEN "continue"
    ELSE "return"

\* What the status dispatch does with a fetched result.
StatusDispatch(resp) ==
    IF resp.status = "Ready" THEN "return"
    ELSE IF resp.status = "Error" THEN "throw"
    ELSE IF resp.status = "Content Moderated" THEN "throw"
    ELSE "continue"

\* The message of the error raised inside the try block for this response.
Thrown(resp, url, prod) ==
    IF resp.kind = "ok"
    THEN IF resp.status = "Error"
         THEN GenerationFailedMessage(resp)
         ELSE ContentModeratedMessage
    ELSE getResultError(resp, url, prod)

isTransient(msg) ==
    \/ includes(msg, <<"503">>)
    \/ includes(msg, <<"502">>)
    \/ includes(msg, <<"ECONNRESET">>)
    \/ includes(msg, <<"ETIMEDOUT">>)

isModeration(msg) ==
    \/ includes(msg, <<"moderated">>)
    \/ includes(msg, <<"Content", "Moderated">>)

\* Variant: the transient test comes before the moderation test.
CatchDecision_TransientFirst(msg, r, maxR) ==
    IF isTransient(msg) /\ r < maxR THEN "retry"
    ELSE "rethrow"

\* The catch block: rethrow the error or retry after a backoff.
CatchDecision(msg, r, maxR) ==
    IF isModeration(msg) THEN "rethrow"
    ELSE IF isTransient(msg) /\ r < maxR THEN "retry"
    ELSE "rethrow"

\* Variant: the exponent starts at 0.
backoff_FromZero(r) == 2 ^ (r - 1)

backoff(r) == 2 ^ r

\* -------------------------------------------------------------- the state
\* The characters an API key is written in.
KeyChars == {"a", "x"}

\* The API keys tried: short ones, and ones of 8 characters and more.
KeyLengths == {3, 7} \cup 8..MaxKeyLen

Keys == UNION {[1..n -> KeyChars] : n \in KeyLengths}

\* The key of the sessions that are not about the log.
SampleKey == <<"a", "x", "a", "a", "x", "x", "a", "x", "a">>

Redacted == <<"[", "R", "E", "D", "A", "C", "T", "E", "D", "]">>

RedactionMarker == <<"x", "x", "x", ".", ".", ".">>

\* apiKey.slice(-n)
sliceLast(key, n) == SubSeq(key, IF Len(key) > n THEN Len(key) - n + 1 ELSE 1, Len(key))

\* Variant: the length of the key is not looked at.
redactApiKey_NoLengthCheck(key) == RedactionMarker \o sliceLast(key, 4)

\* _redactApiKey
redactApiKey(key) ==
    IF Len(key) < 8 THEN Redacted ELSE RedactionMarker \o sliceLast(key, 4)

\* The x-key values the debug line of a status request carries: _makeRequest
\* logs the sanitized headers, the polling-URL branch logs nothing.
getResultLog(url, key) == IF url THEN {} ELSE {redactApiKey(key)}

\* ------------------------------------------------------- image references
\* What an image option can name: a URL, told by its scheme and by where its
\* host leads, or a local path, told by what lies there.
ImageRefs ==
    {[kind |-> "url", scheme |-> sc, host |-> h, file |-> "none"] :
        sc \in {"http", "https"},
        h \in {"public", "loopback", "private", "metadata", "resolvesPrivate"}}
    \cup {[kind |-> "path", scheme |-> "none", host |-> "none", file |-> f] :
        f \in {"image", "notImage", "missing"}}

\* The verdict of the Origin Validator: a URL must be https and lead to a
\* public address, a path must hold a file with an image signature.
OriginApproves(ref) ==
    IF ref.kind = "url"
    THEN ref.scheme = "https" /\ ref.host = "public"
    ELSE ref.file = "image"

\* imageToBase64: input.startsWith('http://') || input.startsWith('https://')
isUrl(ref) == ref.scheme \in {"http", "https"}

\* ------------------------------------------------------- origin validator
\* IPv4 addresses, as their four octets.
V4Addresses ==
    { <<127, 0, 0, 1>>, <<10, 0, 0, 1>>, <<172, 16, 0, 1>>, <<172, 31, 0, 1>>,
      <<172, 32, 0, 1>>, <<192, 168, 1, 1>>, <<169, 254, 169, 254>>, <<8, 8, 8, 8>> }

\* IPv6 addresses, as their eight groups: ::1, fe80::1, febf::1, fc00::1,
\* fd00::1 and 2001:4860::8888.
V6Addresses ==
    { <<0, 0, 0, 0, 0, 0, 0, 1>>, <<65152, 0, 0, 0, 0, 0, 0, 1>>,
      <<65215, 0, 0, 0, 0, 0, 0, 1>>, <<64512, 0, 0, 0, 0, 0, 0, 1>>,
      <<64768, 0, 0, 0, 0, 0, 0, 1>>, <<8193, 18528, 0, 0, 0, 0, 0, 34952>> }

\* Host names, as their labels.
HostNames ==
    { <<"example", "com">>, <<"evil", "com">>, <<"localhost">>,
      <<"metadata", "google", "internal">>, <<"localhost", "evil", "com">> }

BlockedHostnames == { <<"localhost">>, <<"metadata", "google", "internal">> }

\* The spellings of the prefix of an IPv4-mapped IPv6 address.
MappedPrefixes == {"::ffff:", "::FFFF:"}

NoHost == [kind |-> "none", name |-> <<>>, prefix |-> "", addr |-> <<>>]

NameHost(n) == [kind |-> "name", name |-> n, prefix |-> "", addr |-> <<>>]
V4Host(a) == [kind |-> "v4", name |-> <<>>, prefix |-> "", addr |-> a]
V6Host(a) == [kind |-> "v6", name |-> <<>>, prefix |-> "", addr |-> a]
MappedHost(p, a) == [kind |-> "mapped", name |-> <<>>, prefix |-> p, addr |-> a]

\* Literal addresses a URL can carry as its host.
LiteralHosts ==
    {V4Host(a) : a \in V4Addresses} \cup {V6Host(a) : a \in V6Addresses}
    \cup {MappedHost(p, a) : p \in MappedPrefixes, a \in V4Addresses}

Hosts == {NameHost(n) : n \in HostNames} \cup LiteralHosts

NoUrl == [wellFormed |-> FALSE, scheme |-> "", host |-> NoHost]

\* The URLs given to the validator: one that does not parse, and the parsed ones.
Urls ==
    {NoUrl} \cup {[wellFormed |-> TRUE, scheme |-> sc, host |-> h] :
                    sc \in {"https", "http", "ftp"}, h \in Hosts}

\* What the resolver answers: an address, or a failure with its code.
DnsAnswers ==
    {[kind |-> "address", addr |-> h, code |-> ""] :
        h \in {V4Host(a) : a \in V4Addresses} \cup {V6Host(a) : a \in V6Addresses}
               \cup {MappedHost("::ffff:", a) : a \in V4Addresses}}
    \cup {[kind |-> "failure", addr |-> NoHost, code |-> c] :
        c \in {"ENOTFOUND", "ETIMEDOUT", "EAI_AGAIN"}}

NoAnswer == [kind |-> "none", addr |-> NoHost, code |-> ""]

isBlocklisted(name) == \E b \in BlockedHostnames : includes(name, b)

toLowerCase(p) == IF p = "::FFFF:" THEN "::ffff:" ELSE p

\* Variant: the prefix is compared as it is spelt.
unwrapMapped_CaseSensitive(h) ==
    IF h.kind = "mapped" /\ h.prefix = "::ffff:" THEN V4Host(h.addr) ELSE h

\* ::ffff:a.b.c.d is taken as a.b.c.d, in either spelling of the prefix.
unwrapMapped(h) ==
    IF h.kind = "mapped" /\ toLowerCase(h.prefix) = "::ffff:" THEN V4Host(h.addr) ELSE h

isLoopbackV4(a) == a[1] = 127
isPrivateV4(a) ==
    \/ a[1] = 10
    \/ a[1] = 172 /\ a[2] \in 16..31
    \/ a[1] = 192 /\ a[2] = 168
isLinkLocalV4(a) == a[1] = 169 /\ a[2] = 254
isLoopbackV6(a) == a = <<0, 0, 0, 0, 0, 0, 0, 1>>
isLinkLocalV6(a) == a[1] \in 65152..65215
isUniqueLocalV6(a) == a[1] \in 64512..65023

\* The ranges, tested on the address as written: an address still wrapped
\* matches none of them.
classifyLiteral(h) ==
    IF h.kind = "v4"
    THEN IF isLoopbackV4(h.addr) THEN "loopback"
         ELSE IF isPrivateV4(h.addr) \/ isLinkLocalV4(h.addr) THEN "private"
         ELSE "public"
    ELSE IF h.kind = "v6"
    THEN IF isLoopbackV6(h.addr) THEN "loopback"
         ELSE IF isLinkLocalV6(h.addr) \/ isUniqueLocalV6(h.addr) THEN "private"
         ELSE "public"
    ELSE "public"

\* The class of a literal or resolved address: loopback, private or public.
classifyAddress(h) == classifyLiteral(unwrapMapped(h))

Allowed(url) == [kind |-> "allowed", reason |-> "", msg |-> <<>>, url |-> url]
Rejected(reason, msg) == [kind |-> "rejected", reason |-> reason, msg |-> msg, url |-> NoUrl]
NeedsDns == [kind |-> "lookup", reason |-> "", msg |-> <<>>, url |-> NoUrl]
NoVerdict == [kind |-> "none", reason |-> "", msg |-> <<>>, url |-> NoUrl]

LiteralMessage(class) ==
    IF class = "loopback"
    THEN <<"Access to", "localhost", "and", "private", "IP addresses is not allowed">>
    ELSE <<"Access to", "private", "IP addresses is not allowed">>

\* The steps of the validation that need no resolver.
validateStatic(url) ==
    IF ~url.wellFormed THEN Rejected("MalformedUrl", <<"Invalid URL">>)
    ELSE IF url.scheme # "https"
    THEN Rejected("NotHttps", <<"Only", "HTTPS", "URLs are allowed">>)
    ELSE IF url.host.kind = "name"
    THEN IF isBlocklisted(url.host.name)
         THEN Rejected("HostnameBlocklisted",
                       <<"Access to localhost or cloud", "metadata", "endpoints is not allowed">>)
         ELSE NeedsDns
    ELSE IF classifyAddress(url.host) # "public"
    THEN Rejected("LiteralPrivateAddress", LiteralMessage(classifyAddress(url.host)))
    ELSE Allowed(url)

\* Variant: a lookup that fails lets the URL pass.
validateResolved_FailOpen(url, answer) ==
    IF answer.kind = "failure" THEN Allowed(url)
    ELSE IF classifyAddress(answer.addr) # "public"
    THEN Rejected("ResolvesToPrivateAddress", <<"Domain", "resolves to internal/private IP">>)
    ELSE Allowed(url)

\* Variant: the resolved address is not classified.
validateResolved_NoRebindingCheck(url, answer) ==
    IF answer.kind = "failure"
    THEN IF answer.code = "ENOTFOUND"
         THEN Rejected("ResolutionFailed", <<"Domain", "could not be resolved">>)
         ELSE Rejected("ResolutionFailed", <<"Failed to validate domain">>)
    ELSE Allowed(url)

\* Variant: every resolved name is turned away.
validateResolved_RejectsAll(url, answer) ==
    IF answer.kind = "failure"
    THEN IF answer.code = "ENOTFOUND"
         THEN Rejected("ResolutionFailed", <<"Domain", "could not be resolved">>)
         ELSE Rejected("ResolutionFailed", <<"Failed to validate domain">>)
    ELSE Rejected("ResolvesToPrivateAddress", <<"Domain", "resolves to internal/private IP">>)

\* The step of the validation that follows the resolver's answer.
validateResolved(url, answer) ==
    IF answer.kind = "failure"
    THEN IF answer.code = "ENOTFOUND"
         THEN Rejected("ResolutionFailed", <<"Domain", "could not be resolved">>)
         ELSE Rejected("ResolutionFailed", <<"Failed to validate domain">>)
    ELSE IF classifyAddress(answer.addr) # "public"
    THEN Rejected("ResolvesToPrivateAddress", <<"Domain", "resolves to internal/private IP">>)
    ELSE Allowed(url)

\* ------------------------------------------------------- the client
\* The scheme of the URL a status request goes to.
getResultScheme(url, base, poll) == IF url THEN poll ELSE base

\* The constructor's check of baseUrl.
constructorAccepts(base) == base = "https"

VARIABLES
    timeout,        \* option timeout (seconds)
    pollInterval,   \* option pollInterval (seconds)
    maxRetries,     \* option maxRetries
    pollingUrl,     \* TRUE iff a polling URL was supplied
    production,     \* TRUE iff NODE_ENV is production
    pc,             \* position of waitForResult: loop, fetch, pollSleep, backoff, done
    now,            \* the wall clock (seconds)
    startTime,      \* Date.now() at the start of the session
    retries,        \* consecutive transient failures
    outcome,        \* how the call ended: kind none / returned / raised
    last,           \* history: the answer to the latest status fetch
    fetches,        \* history: getResult calls made
    pollSleeps,     \* history: pause(pollInterval) calls finished
    backoffSleeps,  \* history: pause(backoff) calls finished
    nPending,       \* history: fetches answered Pending
    nTransient,     \* history: fetches failed with a transient-class failure
    seenStatuses,   \* history: the task states the fetches have reported
    sent,           \* history: what the latest request was sent with
    nConsecutive,   \* history: transient-class failures in a row, none else between
    cancelRequested,\* TRUE iff the caller has asked to abandon the session
    apiKey,         \* this.apiKey, a sequence of characters
    logged,         \* history: the x-key values written to the log
    imgRefs,        \* the image options of the command, in the order they are converted
    imgIdx,         \* image options converted so far
    requested,      \* history: the references an HTTP GET was sent for
    filesRead,      \* history: the references whose file content was read
    imgOutcome,     \* addImageInputs: none (running), params (returned), raised
    vUrl,           \* the URL under validation
    vPc,            \* position of the validation: idle, start, lookup, done
    vResolved,      \* the resolver's answer
    vVerdict,       \* the verdict of the validation
    nPrompts,       \* options.prompt.length
    dryRun,         \* options.dryRun
    cliPc,          \* position of main: idle, init, loop, generating, pause, exited
    promptIdx,      \* the loop variable i of main
    started,        \* history: the prompts whose generation was started, in order
    inFlight,       \* the prompts whose generateImage call has not returned yet
    results,        \* the array results of main
    exitCode,       \* the code given to process.exit, -1 before
    baseScheme,     \* the scheme of the baseUrl given to the constructor
    pollScheme,     \* the scheme of the polling URL, when one is supplied
    clientPc,       \* the client: new (not constructed), ready, rejected
    keySentOver,    \* history: the schemes of the URLs the key was sent to
    peer            \* a second waitForResult call on the same client

\* The state of one poll session.
session == <<timeout, pollInterval, maxRetries, pollingUrl, production, pc, now, startTime,
             retries, outcome, last, fetches, pollSleeps, backoffSleeps, nPending,
             nTransient, seenStatuses, nConsecutive, sent, logged, keySentOver>>

\* What lies outside the session and no step of the session writes.
\* The state of one addImageInputs call.
images == <<imgRefs, imgIdx, requested, filesRead, imgOutcome>>

\* The state of one validation of a URL.
validation == <<vUrl, vPc, vResolved, vVerdict>>

\* The state of one run of the command line.
batch == <<nPrompts, dryRun, cliPc, promptIdx, started, inFlight, results, exitCode>>

\* The client object: the scheme of its base URL, the scheme of the polling
\* URL its sessions are given, and whether its constructor has returned.
client == <<baseScheme, pollScheme, clientPc>>

others == <<cancelRequested, apiKey, client, peer, images, validation, batch>>

vars == <<session, others>>

options == <<timeout, pollInterval, maxRetries, pollingUrl, production>>

\* The failures the documentation calls transient: HTTP 502/503, a connection
\* reset, a timeout of the connection or of the request.
TransientClass(resp) ==
    \/ resp.kind = "http" /\ resp.code \in {502, 503}
    \/ resp.kind = "net" /\ resp.net \in {"reset", "hangup", "connTimeout", "reqTimeout"}

Raised(msg) == [kind |-> "raised", msg |-> msg, result |-> NoResp]
Returned(resp) == [kind |-> "returned", msg |-> <<>>, result |-> resp]
NoOutcome == [kind |-> "none", msg |-> <<>>, result |-> NoResp]

\* waitForResult is entered: nothing fetched, nothing slept, nothing logged.
SessionStart ==
    /\ pc = "loop"
    /\ now = 0
    /\ startTime = 0
    /\ retries = 0
    /\ outcome = NoOutcome
    /\ last = NoResp
    /\ fetches = 0
    /\ pollSleeps = 0
    /\ backoffSleeps = 0
    /\ nPending = 0
    /\ nTransient = 0
    /\ seenStatuses = {}
    /\ nConsecutive = 0
    /\ sent = makeRequestConfig   \* the submission that created the task
    /\ logged = {}
    /\ keySentOver = {}
    /\ cancelRequested = FALSE

\* A command without image options.
NoImages ==
    /\ imgRefs = <<>>
    /\ imgIdx = 0
    /\ requested = {}
    /\ filesRead = {}
    /\ imgOutcome = "none"

\* No URL is under validation.
NoValidation ==
    /\ vUrl = NoUrl
    /\ vPc = "idle"
    /\ vResolved = NoAnswer
    /\ vVerdict = NoVerdict

\* The client is constructed, and its URLs are https.
ReadyClient ==
    /\ baseScheme = "https"
    /\ pollScheme = "https"
    /\ clientPc = "ready"

\* The second session when there is none.
NoPeerSession ==
    [timeout |-> 0, pollInterval |-> 0, maxRetries |-> 0, pc |-> "idle", now |-> 0,
     startTime |-> 0, retries |-> 0, fetches |-> 0, outcome |-> NoOutcome]

\* No second session runs.
NoPeer == peer = NoPeerSession

\* No command is running.
NoBatch ==
    /\ nPrompts = 0
    /\ dryRun = FALSE
    /\ cliPc = "idle"
    /\ promptIdx = 0
    /\ started = <<>>
    /\ inFlight = {}
    /\ results = <<>>
    /\ exitCode = -1

Init ==
    /\ timeout \in 0..MaxTimeout
    /\ pollInterval \in 1..MaxPollInterval
    /\ maxRetries \in 0..MaxRetriesOpt
    /\ pollingUrl \in BOOLEAN
    /\ production \in BOOLEAN
    /\ apiKey = SampleKey
    /\ ReadyClient
    /\ NoPeer
    /\ SessionStart
    /\ NoImages
    /\ NoValidation
    /\ NoBatch

\* Loop head: the elapsed-time check, then the call of getResult.
CheckTimeout ==
    /\ clientPc = "ready"
    /\ pc = "loop"
    /\ IF TimedOut(now - startTime, timeout)
       THEN /\ pc' = "done"
            /\ outcome' = Raised(TimeoutMessage(timeout))
            /\ UNCHANGED <<fetches, sent, logged, keySentOver>>
       ELSE /\ pc' = "fetch"
            /\ fetches' = fetches + 1
            /\ sent' = getResultConfig(pollingUrl)
            /\ logged' = logged \cup getResultLog(pollingUrl, apiKey)
            /\ keySentOver' = keySentOver \cup {getResultScheme(pollingUrl, baseScheme, pollScheme)}
            /\ UNCHANGED outcome
    /\ UNCHANGED <<options, now, startTime, retries, last, pollSleeps, backoffSleeps,
                   nPending, nTransient, seenStatuses, nConsecutive, others>>

\* The time the fetch answered by resp takes.
FetchDurations(resp) ==
    IF resp.kind = "net" /\ resp.net = "reqTimeout"
    THEN {REQUEST_TIMEOUT}
    ELSE 0..MaxFetchDur

\* The answers a fetch can get: only _makeRequest sets a request timeout.
Answers == {r \in Responses : r.kind = "net" /\ r.net = "reqTimeout" => ~pollingUrl}

\* getResult settles with resp after d seconds; the status dispatch and the
\* catch block run.
Settle(resp, d) ==
        /\ now' = now + d
        /\ last' = resp
        /\ nPending' = IF resp.kind = "ok" /\ resp.status = "Pending"
                       THEN nPending + 1 ELSE nPending
        /\ nTransient' = IF TransientClass(resp) THEN nTransient + 1 ELSE nTransient
        /\ seenStatuses' = IF resp.kind = "ok"
                           THEN seenStatuses \cup {resp.status} ELSE seenStatuses
        /\ nConsecutive' = IF TransientClass(resp) THEN nConsecutive + 1 ELSE 0
        /\ IF resp.kind = "ok" /\ StatusDispatch(resp) = "return"
           THEN /\ pc' = "done"
                /\ outcome' = Returned(resp)
                /\ UNCHANGED retries
           ELSE IF resp.kind = "ok" /\ StatusDispatch(resp) = "continue"
           THEN /\ pc' = "pollSleep"
                /\ retries' = 0
                /\ UNCHANGED outcome
           ELSE LET msg == Thrown(resp, pollingUrl, production) IN
                IF CatchDecision(msg, retries, maxRetries) = "retry"
                THEN /\ pc' = "backoff"
                     /\ retries' = retries + 1
                     /\ UNCHANGED outcome
                ELSE /\ pc' = "done"
                     /\ outcome' = Raised(msg)
                     /\ UNCHANGED retries
        /\ UNCHANGED <<options, startTime, fetches, pollSleeps, backoffSleeps, sent, logged,
                       keySentOver, others>>

\* The status fetch is answered.
FetchReturn ==
    /\ pc = "fetch"
    /\ \E resp \in Answers : \E d \in FetchDurations(resp) : Settle(resp, d)

\* pause(pollInterval) at the foot of the loop.
PollSleep ==
    /\ pc = "pollSleep"
    /\ \E late \in 0..MaxLate : now' = now + pollInterval + late
    /\ pollSleeps' = pollSleeps + 1
    /\ pc' = "loop"
    /\ UNCHANGED <<options, startTime, retries, outcome, last, fetches, backoffSleeps,
                   nPending, nTransient, seenStatuses, nConsecutive, sent, logged, keySentOver,
                   others>>

\* Variant: after the backoff the fetch is retried in place, not from the loop head.
BackoffSleep_RetriesInPlace ==
    /\ pc = "backoff"
    /\ \E late \in 0..MaxLate : now' = now + backoff(retries) + late
    /\ backoffSleeps' = backoffSleeps + 1
    /\ pc' = "fetch"
    /\ fetches' = fetches + 1
    /\ sent' = getResultConfig(pollingUrl)
    /\ logged' = logged \cup getResultLog(pollingUrl, apiKey)
    /\ keySentOver' = keySentOver \cup {getResultScheme(pollingUrl, baseScheme, pollScheme)}
    /\ UNCHANGED <<options, startTime, retries, outcome, last, pollSleeps,
                   nPending, nTransient, seenStatuses, nConsecutive, others>>

\* pause(backoff) of the catch block, then continue.
BackoffSleep ==
    /\ pc = "backoff"
    /\ \E late \in 0..MaxLate : now' = now + backoff(retries) + late
    /\ backoffSleeps' = backoffSleeps + 1
    /\ pc' = "loop"
    /\ UNCHANGED <<options, startTime, retries, outcome, last, fetches, pollSleeps,
                   nPending, nTransient, seenStatuses, nConsecutive, sent, logged, keySentOver,
                   others>>

Next == CheckTimeout \/ FetchReturn \/ PollSleep \/ BackoffSleep

Spec == Init /\ [][Next]_vars

\* Every await of the session settles: the fetch is answered, the timers fire.
FairSpec == Spec /\ WF_vars(Next)

\* A session whose every status fetch is answered Pending.
FetchPending == FetchReturn /\ last'.kind = "ok" /\ last'.status = "Pending"

PendingNext == CheckTimeout \/ FetchPending \/ PollSleep

PendingSpec == Init /\ [][PendingNext]_vars /\ WF_vars(PendingNext)

\* The caller asks to abandon the running session. WaitResultOptions has no
\* field that carries the request and no step of waitForResult reads it.
Cancel ==
    /\ pc # "done"
    /\ ~cancelRequested
    /\ cancelRequested' = TRUE
    /\ UNCHANGED <<session, apiKey, client, peer, images, validation, batch>>

CancelSpec == Init /\ [][Next \/ Cancel]_vars

\* A delay of the service beyond the request timeout of _makeRequest.
SlowAnswer == 2 * REQUEST_TIMEOUT

\* The fetch addressed to the polling URL is answered late: the bare axios.get
\* of that branch has no timeout that would end it before.
FetchReturnsLate ==
    /\ pc = "fetch"
    /\ pollingUrl
    /\ \E resp \in Answers : Settle(resp, SlowAnswer)

SlowSpec == Init /\ [][Next \/ FetchReturnsLate]_vars

\* Sessions of clients constructed with any of the keys.
KeyInit ==
    /\ timeout = 1
    /\ pollInterval = 1
    /\ maxRetries = 0
    /\ pollingUrl \in BOOLEAN
    /\ production = FALSE
    /\ apiKey \in Keys
    /\ ReadyClient
    /\ NoPeer
    /\ SessionStart
    /\ NoImages
    /\ NoValidation
    /\ NoBatch

KeySpec == KeyInit /\ [][PendingNext]_vars

\* addImageInputs converts the next image option by imageToBase64: a URL is
\* downloaded by urlToBase64, anything else is read by fileToBase64. A failed
\* download or read is thrown to the caller.
ConvertImage ==
    /\ imgOutcome = "none"
    /\ imgIdx < Len(imgRefs)
    /\ LET ref == imgRefs[imgIdx + 1] IN
        IF isUrl(ref)
        THEN /\ requested' = requested \cup {ref}
             /\ UNCHANGED filesRead
             /\ \E answered \in BOOLEAN :
                    IF answered
                    THEN imgIdx' = imgIdx + 1 /\ UNCHANGED imgOutcome
                    ELSE imgOutcome' = "raised" /\ UNCHANGED imgIdx
        ELSE IF ref.file = "missing"
        THEN /\ imgOutcome' = "raised"
             /\ UNCHANGED <<imgIdx, requested, filesRead>>
        ELSE /\ filesRead' = filesRead \cup {ref}
             /\ imgIdx' = imgIdx + 1
             /\ UNCHANGED <<requested, imgOutcome>>
    /\ UNCHANGED <<session, cancelRequested, apiKey, client, peer, validation, batch, imgRefs>>

\* Every image option is converted: addImageInputs returns.
AddImageInputsReturn ==
    /\ imgOutcome = "none"
    /\ imgIdx = Len(imgRefs)
    /\ imgOutcome' = "params"
    /\ UNCHANGED <<session, cancelRequested, apiKey, client, peer, validation, batch, imgRefs, imgIdx,
                   requested, filesRead>>

\* Commands with one image option or more.
ImageInit ==
    /\ timeout = 0
    /\ pollInterval = 1
    /\ maxRetries = 0
    /\ pollingUrl = FALSE
    /\ production = FALSE
    /\ apiKey = SampleKey
    /\ ReadyClient
    /\ NoPeer
    /\ SessionStart
    /\ imgRefs \in UNION {[1..n -> ImageRefs] : n \in 1..MaxImages}
    /\ imgIdx = 0
    /\ requested = {}
    /\ filesRead = {}
    /\ imgOutcome = "none"
    /\ NoValidation
    /\ NoBatch

ImageNext == ConvertImage \/ AddImageInputsReturn

ImageSpec == ImageInit /\ [][ImageNext]_vars

TypeOK ==
    /\ pc \in {"loop", "fetch", "pollSleep", "backoff", "done"}
    /\ retries \in 0..maxRetries
    /\ outcome.kind \in {"none", "returned", "raised"}
    /\ (pc = "done") = (outcome.kind # "none")

\* The validation of a URL up to the resolver: parse, scheme, blocklist and
\* literal addresses.
ValidateStart ==
    /\ vPc = "start"
    /\ LET v == validateStatic(vUrl) IN
        IF v = NeedsDns
        THEN vPc' = "lookup" /\ UNCHANGED vVerdict
        ELSE vPc' = "done" /\ vVerdict' = v
    /\ UNCHANGED <<session, cancelRequested, apiKey, client, peer, images, batch, vUrl, vResolved>>

\* The resolver answers and the validation ends.
DnsSettles ==
    /\ vPc = "lookup"
    /\ \E answer \in DnsAnswers :
        /\ vResolved' = answer
        /\ vVerdict' = validateResolved(vUrl, answer)
    /\ vPc' = "done"
    /\ UNCHANGED <<session, cancelRequested, apiKey, client, peer, images, batch, vUrl>>

\* Validations of any of the URLs.
ValidatorInit ==
    /\ timeout = 0
    /\ pollInterval = 1
    /\ maxRetries = 0
    /\ pollingUrl = FALSE
    /\ production = FALSE
    /\ apiKey = SampleKey
    /\ ReadyClient
    /\ NoPeer
    /\ SessionStart
    /\ NoImages
    /\ vUrl \in Urls
    /\ vPc = "start"
    /\ vResolved = NoAnswer
    /\ vVerdict = NoVerdict
    /\ NoBatch

ValidatorNext == ValidateStart \/ DnsSettles

ValidatorSpec == ValidatorInit /\ [][ValidatorNext]_vars

\* ------------------------------------------------------- construction
\* new BflAPI({ baseUrl }): a base URL that is not https makes it throw.
Construct ==
    /\ clientPc = "new"
    /\ clientPc' = IF constructorAccepts(baseScheme) THEN "ready" ELSE "rejected"
    /\ UNCHANGED <<session, cancelRequested, apiKey, baseScheme, pollScheme, peer, images,
                   validation, batch>>

\* A client still to be constructed, with any base URL, and its session, with
\* any polling URL.
SchemeInit ==
    /\ timeout = 1
    /\ pollInterval = 1
    /\ maxRetries = 1
    /\ pollingUrl \in BOOLEAN
    /\ production = FALSE
    /\ apiKey = SampleKey
    /\ baseScheme \in {"https", "http"}
    /\ pollScheme \in {"https", "http"}
    /\ clientPc = "new"
    /\ SessionStart
    /\ NoPeer
    /\ NoImages
    /\ NoValidation
    /\ NoBatch

SchemeSpec == SchemeInit /\ [][Next \/ Construct]_vars

\* ------------------------------------------------------- a second session
\* The answers the second session's fetches get.
PeerAnswers ==
    {r \in Responses :
        /\ r.text = <<>>
        /\ r.kind = "ok" => r.status \in {"Pending", "Ready"}
        /\ r.kind = "http" => r.code \in {422, 503}
        /\ r.kind = "net" => r.net = "reset"}

\* The second session after its fetch has settled with resp after d seconds,
\* its retry counter being r.
PeerSettle(p, r, resp, d) ==
    LET q == [p EXCEPT !.now = @ + d] IN
    IF resp.kind = "ok" /\ StatusDispatch(resp) = "return"
    THEN [q EXCEPT !.pc = "done", !.outcome = Returned(resp), !.retries = r]
    ELSE IF resp.kind = "ok" /\ StatusDispatch(resp) = "continue"
    THEN [q EXCEPT !.pc = "pollSleep", !.retries = 0]
    ELSE LET msg == Thrown(resp, FALSE, production) IN
         IF CatchDecision(msg, r, p.maxRetries) = "retry"
         THEN [q EXCEPT !.pc = "backoff", !.retries = r + 1]
         ELSE [q EXCEPT !.pc = "done", !.outcome = Raised(msg), !.retries = r]

\* Loop head of the second session.
PeerCheckTimeout ==
    /\ peer.pc = "loop"
    /\ peer' = IF TimedOut(peer.now - peer.startTime, peer.timeout)
               THEN [peer EXCEPT !.pc = "done",
                                 !.outcome = Raised(TimeoutMessage(peer.timeout))]
               ELSE [peer EXCEPT !.pc = "fetch", !.fetches = @ + 1]
    /\ UNCHANGED <<session, cancelRequested, apiKey, client, images, validation, batch>>

\* Variant: the retry counter is kept on the client and counts for both sessions.
PeerFetchReturn_SharedCounter ==
    /\ peer.pc = "fetch"
    /\ \E resp \in PeerAnswers : \E d \in 0..MaxFetchDur :
        /\ peer' = PeerSettle(peer, retries, resp, d)
        /\ retries' = peer'.retries
    /\ UNCHANGED <<options, pc, now, startTime, outcome, last, fetches, pollSleeps,
                   backoffSleeps, nPending, nTransient, seenStatuses, nConsecutive, sent,
                   logged, keySentOver>>
    /\ UNCHANGED <<cancelRequested, apiKey, client, images, validation, batch>>

\* The fetch of the second session settles.
PeerFetchReturn ==
    /\ peer.pc = "fetch"
    /\ \E resp \in PeerAnswers : \E d \in 0..MaxFetchDur :
        peer' = PeerSettle(peer, peer.retries, resp, d)
    /\ UNCHANGED <<session, cancelRequested, apiKey, client, images, validation, batch>>

\* pause(pollInterval) of the second session.
PeerPollSleep ==
    /\ peer.pc = "pollSleep"
    /\ peer' = [peer EXCEPT !.now = @ + peer.pollInterval, !.pc = "loop"]
    /\ UNCHANGED <<session, cancelRequested, apiKey, client, images, validation, batch>>

\* pause(backoff) of the second session.
PeerBackoffSleep ==
    /\ peer.pc = "backoff"
    /\ peer' = [peer EXCEPT !.now = @ + backoff(peer.retries), !.pc = "loop"]
    /\ UNCHANGED <<session, cancelRequested, apiKey, client, images, validation, batch>>

PeerNext == PeerCheckTimeout \/ PeerFetchReturn \/ PeerPollSleep \/ PeerBackoffSleep

\* Two waitForResult calls on one client, for two tasks, each with its options.
PairInit ==
    /\ timeout = 1
    /\ pollInterval = 1
    /\ maxRetries = 1
    /\ pollingUrl = FALSE
    /\ production = FALSE
    /\ apiKey = SampleKey
    /\ ReadyClient
    /\ SessionStart
    /\ \E t \in {0, 2}, r \in {0, 2} :
          peer = [NoPeerSession EXCEPT !.timeout = t, !.pollInterval = 2,
                                       !.maxRetries = r, !.pc = "loop"]
    /\ NoImages
    /\ NoValidation
    /\ NoBatch

PairSpec == PairInit /\ [][Next \/ PeerNext]_vars

\* ------------------------------------------------------- the command line
\* Where a generateImage call can end: complete, or in its catch block from
\* the conversion of the image options, the submission, the polling, the
\* download or the writing of the metadata. A dry run returns before it submits.
GenerationEnds(dry) ==
    IF dry THEN {"imageInputs", "complete"}
    ELSE {"imageInputs", "submit", "polling", "download", "save", "complete"}

failedCount(res) == Cardinality({k \in 1..Len(res) : ~res[k].success})
successfulCount(res) == Cardinality({k \in 1..Len(res) : res[k].success})

\* Variant: one successful generation is enough for code 0.
exitCodeOf_AnySuccess(res) == IF successfulCount(res) > 0 THEN 0 ELSE 1

\* process.exit(failed > 0 ? 1 : 0)
exitCodeOf(res) == IF failedCount(res) > 0 THEN 1 ELSE 0

\* new BflAPI(...): without an API key the constructor throws and main exits
\* from its catch block.
InitApi ==
    /\ cliPc = "init"
    /\ \E constructed \in BOOLEAN :
        IF constructed
        THEN cliPc' = "loop" /\ UNCHANGED exitCode
        ELSE cliPc' = "exited" /\ exitCode' = 1
    /\ UNCHANGED <<session, cancelRequested, apiKey, client, peer, images, validation,
                   nPrompts, dryRun, promptIdx, started, inFlight, results>>

\* The loop calls generateImage for prompt i.
StartGeneration ==
    /\ cliPc = "loop"
    /\ promptIdx < nPrompts
    /\ started' = Append(started, promptIdx + 1)
    /\ inFlight' = inFlight \cup {promptIdx + 1}
    /\ cliPc' = "generating"
    /\ UNCHANGED <<session, cancelRequested, apiKey, client, peer, images, validation,
                   nPrompts, dryRun, promptIdx, results, exitCode>>

\* Variant: the loop is left at the first failed generation.
GenerationReturns_StopsAtFailure ==
    /\ cliPc = "generating"
    /\ \E end \in GenerationEnds(dryRun) :
        /\ results' = Append(results, [prompt |-> promptIdx + 1,
                                        success |-> end = "complete", end |-> end])
        /\ promptIdx' = IF end = "complete" THEN promptIdx + 1 ELSE nPrompts
        /\ cliPc' = IF end = "complete" /\ promptIdx + 1 < nPrompts /\ ~dryRun
                     THEN "pause" ELSE "loop"
    /\ inFlight' = inFlight \ {promptIdx + 1}
    /\ UNCHANGED <<session, cancelRequested, apiKey, client, peer, images, validation,
                   nPrompts, dryRun, started, exitCode>>

\* generateImage returns its result, from the end of its try block or from
\* its catch block; the result is pushed and the loop goes on.
GenerationReturns ==
    /\ cliPc = "generating"
    /\ \E end \in GenerationEnds(dryRun) :
        results' = Append(results, [prompt |-> promptIdx + 1,
                                     success |-> end = "complete", end |-> end])
    /\ inFlight' = inFlight \ {promptIdx + 1}
    /\ promptIdx' = promptIdx + 1
    /\ cliPc' = IF promptIdx + 1 < nPrompts /\ ~dryRun THEN "pause" ELSE "loop"
    /\ UNCHANGED <<session, cancelRequested, apiKey, client, peer, images, validation,
                   nPrompts, dryRun, started, exitCode>>

\* The pause of 2 seconds between two generations of a batch.
BatchPause ==
    /\ cliPc = "pause"
    /\ cliPc' = "loop"
    /\ UNCHANGED <<session, cancelRequested, apiKey, client, peer, images, validation,
                   nPrompts, dryRun, promptIdx, started, inFlight, results, exitCode>>

\* The summary, then process.exit.
ExitBatch ==
    /\ cliPc = "loop"
    /\ promptIdx >= nPrompts
    /\ exitCode' = exitCodeOf(results)
    /\ cliPc' = "exited"
    /\ UNCHANGED <<session, cancelRequested, apiKey, client, peer, images, validation,
                   nPrompts, dryRun, promptIdx, started, inFlight, results>>

\* Commands with a model and one prompt or more.
BatchInit ==
    /\ timeout = 0
    /\ pollInterval = 1
    /\ maxRetries = 0
    /\ pollingUrl = FALSE
    /\ production = FALSE
    /\ apiKey = SampleKey
    /\ ReadyClient
    /\ NoPeer
    /\ SessionStart
    /\ NoImages
    /\ NoValidation
    /\ nPrompts \in 1..MaxPrompts
    /\ dryRun \in BOOLEAN
    /\ cliPc = "init"
    /\ promptIdx = 0
    /\ started = <<>>
    /\ inFlight = {}
    /\ results = <<>>
    /\ exitCode = -1

BatchNext == InitApi \/ StartGeneration \/ GenerationReturns \/ BatchPause \/ ExitBatch

BatchSpec == BatchInit /\ [][BatchNext]_vars

\* ------------------------------------------------------------ properties
elapsedNow == now - startTime

TimeoutRaised == pc = "done" /\ outcome = Raised(TimeoutMessage(timeout))

\* The text of an error names moderation.
ModerationText(msg) ==
    includes(msg, <<"moderated">>) \/ includes(msg, <<"Content", "Moderated">>)

\* The step in which the pending fetch is answered by a result of status s.
AnsweredStatus(s) == pc = "fetch" /\ last'.kind = "ok" /\ last'.status = s

\* The step in which the pending fetch fails.
FetchFails == pc = "fetch" /\ last'.kind \in {"http", "net"}

\* C1: a fetch answered with status Error ends the session at once with the
\* generation-failed error carrying the service's failure text, and no fetch
\* follows, whatever the text is and whatever maxRetries is.
C1_ErrorStatusIsFinal ==
    [][ /\ AnsweredStatus("Error") =>
            /\ pc' = "done"
            /\ outcome' = Raised(<<"Generation failed:">> \o
                    (IF last'.text # <<>> THEN last'.text ELSE <<"Unknown error">>))
        /\ pc = "done" => fetches' = fetches ]_vars

\* C2: a failed fetch that is neither an HTTP 502/503 nor a connection reset or
\* timeout ends the session on its first occurrence with the error getResult threw.
C2_OtherFailureIsFatal ==
    [][ (FetchFails /\ ~TransientClass(last')) =>
            /\ pc' = "done"
            /\ outcome' = Raised(getResultError(last', pollingUrl, production))
            /\ fetches' = fetches ]_vars

\* C3: a failed fetch that is an HTTP 502/503, a connection reset or a timeout
\* (of the network or of the request) is retried while the consecutive failures
\* are at most maxRetries; k <= maxRetries such failures followed by Ready end
\* in that result being returned after k+1 fetches.
C3_TransientIsRetried ==
    [][ /\ (FetchFails /\ TransientClass(last') /\ retries + 1 <= maxRetries) =>
            (pc' = "backoff" /\ outcome' = NoOutcome)
        /\ (AnsweredStatus("Ready") /\ nTransient = fetches - 1 /\ nTransient <= maxRetries) =>
            (pc' = "done" /\ outcome' = Returned(last') /\ backoffSleeps = nTransient) ]_vars

\* C4: when every fetch of a session fails with a transient failure and the
\* session does not end by Timeout, it ends after exactly 1 + maxRetries fetches
\* with the error of the last fetch.
C4_RetriesAreBounded ==
    (pc = "done" /\ fetches >= 1 /\ nTransient = fetches /\ ~TimeoutRaised) =>
        /\ fetches = 1 + maxRetries
        /\ outcome = Raised(getResultError(last, pollingUrl, production))

\* The part of C4 the code keeps: the failures the catch block recognises as
\* transient are retried at most maxRetries times.
RecognisedRetriesAreBounded ==
    (pc = "done" /\ fetches >= 1 /\ nTransient = fetches /\ ~TimeoutRaised
        /\ isTransient(outcome.msg)) => fetches = 1 + maxRetries

\* C5: a failed fetch whose error text names moderation ends the session at once
\* with that error, whatever maxRetries is and even when the text also matches a
\* transient pattern.
C5_ModerationErrorIsFinal ==
    [][ (FetchFails /\ ModerationText(getResultError(last', pollingUrl, production))) =>
            /\ pc' = "done"
            /\ outcome' = Raised(getResultError(last', pollingUrl, production))
            /\ fetches' = fetches ]_vars

C5_Witness ==
    /\ pc = "done"
    /\ last.kind = "http"
    /\ outcome.kind = "raised"
    /\ ModerationText(outcome.msg)
    /\ includes(outcome.msg, <<"503">>)
    /\ retries < maxRetries
    /\ fetches = 1

\* C6: a fetch answered with status Content Moderated ends the session at once
\* with the content-moderated error, and no fetch follows.
C6_ContentModeratedIsFinal ==
    [][ /\ AnsweredStatus("Content Moderated") =>
            /\ pc' = "done"
            /\ outcome' = Raised(<<"Content was", "moderated", ". Please revise your prompt.">>)
            /\ fetches' = fetches
        /\ (pc = "done" /\ "Content Moderated" \in seenStatuses) => UNCHANGED fetches ]_vars

C6_Witness ==
    /\ pc = "done"
    /\ last.kind = "ok" /\ last.status = "Content Moderated"
    /\ outcome.kind = "raised"
    /\ retries < maxRetries
    /\ fetches >= 2

\* C7: when every fetch is answered Pending the session ends with Timeout, and
\* Timeout is raised only when the elapsed time is strictly greater than timeout.
C7_PendingEndsInTimeout ==
    /\ <>TimeoutRaised
    /\ [](TimeoutRaised => elapsedNow > timeout)
    /\ [](pc = "done" => TimeoutRaised)

C7_Witness ==
    /\ TimeoutRaised
    /\ fetches >= 2
    /\ nPending = fetches
    /\ pollSleeps = fetches

\* C8: the elapsed-time check precedes every fetch, also the one after a backoff:
\* with the elapsed time above timeout no fetch starts and the session ends with
\* Timeout, whatever the retry counter is.
C8_CheckPrecedesEveryFetch ==
    [][ /\ (pc = "loop" /\ elapsedNow > timeout) =>
            (pc' = "done" /\ outcome' = Raised(TimeoutMessage(timeout)) /\ fetches' = fetches)
        /\ fetches' # fetches => (pc = "loop" /\ elapsedNow <= timeout) ]_vars

C8_Witness ==
    /\ TimeoutRaised
    /\ last.kind \in {"http", "net"}
    /\ backoffSleeps >= 1
    /\ retries >= 1
    /\ retries < maxRetries

\* C9: N fetches answered Pending and then one answered Ready: the Ready result
\* is returned after N+1 fetches and N sleeps of pollInterval, with no backoff
\* sleep, and nothing is fetched after Ready.
C9_PendingThenReady ==
    (last.kind = "ok" /\ last.status = "Ready") =>
        /\ pc = "done"
        /\ outcome = Returned(last)
        /\ nPending = fetches - 1 => (pollSleeps = nPending /\ backoffSleeps = 0)

C9_Witness ==
    /\ pc = "done"
    /\ outcome.kind = "returned"
    /\ outcome.result.status = "Ready"
    /\ nPending = 2
    /\ fetches = 3
    /\ pollSleeps = 2

\* C10: a fetch answered Request Moderated does not end the session: the poller
\* sleeps pollInterval and goes on to the next check and fetch, and a Ready
\* answer afterwards is returned.
C10_RequestModeratedContinues ==
    [][ /\ AnsweredStatus("Request Moderated") =>
            (pc' = "pollSleep" /\ outcome' = NoOutcome /\ retries' = 0)
        /\ pc = "pollSleep" =>
            (pc' = "loop" /\ now' >= now + pollInterval /\ outcome' = NoOutcome)
        /\ (AnsweredStatus("Ready") /\ "Request Moderated" \in seenStatuses) =>
            (pc' = "done" /\ outcome' = Returned(last')) ]_vars

C10_Witness ==
    /\ pc = "done"
    /\ outcome.kind = "returned"
    /\ outcome.result.status = "Ready"
    /\ seenStatuses = {"Request Moderated", "Ready"}
    /\ fetches = 2
    /\ pollSleeps = 1

C12_CounterIsConsecutive ==
    [][ /\ (AnsweredStatus("Pending") \/ AnsweredStatus("Request Moderated")) => retries' = 0
        /\ (FetchFails /\ TransientClass(last') /\ pc' = "done"
                /\ isTransient(outcome'.msg) /\ ~isModeration(outcome'.msg)) =>
            nConsecutive' > maxRetries ]_vars

\* What a caller reads off the message of the error waitForResult raised.
OutcomeOfMessage(msg) ==
    IF msg # <<>> /\ Head(msg) = "Timeout after" THEN "Timeout"
    ELSE IF msg # <<>> /\ Head(msg) = "Generation failed:" THEN "GenerationFailed"
    ELSE IF msg = <<"Content was", "moderated", ". Please revise your prompt.">>
         THEN "ContentModerated"
    ELSE "Underlying"

\* C13: the error a session ends with tells the caller which of Timeout,
\* GenerationFailed, ContentModerated and exhausted retries happened, and a
\* session ended by a failed fetch raises the error of that last fetch.
C13_OutcomesAreDistinct ==
    [][ (pc # "done" /\ pc' = "done" /\ outcome'.kind = "raised") =>
            /\ pc = "loop" => OutcomeOfMessage(outcome'.msg) = "Timeout"
            /\ AnsweredStatus("Error") =>
                    OutcomeOfMessage(outcome'.msg) = "GenerationFailed"
            /\ AnsweredStatus("Content Moderated") =>
                    OutcomeOfMessage(outcome'.msg) = "ContentModerated"
            /\ FetchFails =>
                    /\ OutcomeOfMessage(outcome'.msg) = "Underlying"
                    /\ outcome'.msg = getResultError(last', pollingUrl, production) ]_vars

C13_Witness ==
    /\ pc = "done"
    /\ outcome.kind = "raised"
    /\ last.kind = "http" /\ last.code = 503
    /\ maxRetries >= 1
    /\ retries = maxRetries
    /\ nConsecutive = maxRetries + 1
    /\ OutcomeOfMessage(outcome.msg) = "Underlying"

\* C14: a running session can be cancelled from outside: once cancellation is
\* requested no further fetch is started, and the session ends at the next loop
\* head without waiting for the timeout.
C14_CancellationStopsPolling ==
    [][ /\ cancelRequested => fetches' = fetches
        /\ (cancelRequested /\ pc = "loop") => pc' = "done" ]_vars

\* C15: a request answered with HTTP 429 is retried after an exponential
\* backoff, as long as retries are left.
C15_RateLimitIsRetried ==
    [][ (FetchFails /\ last'.kind = "http" /\ last'.code = 429 /\ retries < maxRetries) =>
            (pc' = "backoff" /\ retries' = retries + 1 /\ outcome' = NoOutcome) ]_vars

\* C16: every request sent to the service, the submission and every status
\* fetch with or without a polling URL, carries the x-key header, the request
\* timeout and the redirect limit.
C16_EveryRequestIsGuarded ==
    /\ "x-key" \in sent.headers
    /\ "timeout" \in sent.settings
    /\ "maxRedirects" \in sent.settings

\* The error the status code of a failed request stands for.
ErrorOfStatus(code) ==
    CASE code = 401 -> "AuthenticationFailed"
      [] code = 422 -> "InvalidParameters"
      [] code = 429 -> "RateLimited"
      [] code \in {502, 503} -> "ServiceUnavailable"
      [] OTHER -> "HttpError"

\* The error a message names, read off its fixed opening words.
ErrorOfMessage(msg) ==
    CASE Head(msg) = "Authentication failed. Please check your API key." ->
            "AuthenticationFailed"
      [] Head(msg) = "Invalid parameters:" -> "InvalidParameters"
      [] Head(msg) = "Rate limit exceeded. Please wait before making more requests." ->
            "RateLimited"
      [] Head(msg) = "Service temporarily unavailable (" -> "ServiceUnavailable"
      [] Head(msg) = "HTTP" -> "HttpError"
      [] OTHER -> "Unmapped"

\* C17: the error raised for a request answered with an HTTP error status is
\* determined by the status code, also for a status fetch sent to a polling URL:
\* 401, 422 (with the detail), 429, 502/503, and an HTTP error naming status and
\* detail for every other code.
C17_StatusDecidesError ==
    [][ (FetchFails /\ last'.kind = "http") =>
            LET msg == getResultError(last', pollingUrl, production) IN
            /\ ErrorOfMessage(msg) = ErrorOfStatus(last'.code)
            /\ last'.code \in {502, 503} => msg[2] = ToString(last'.code)
            /\ ErrorOfMessage(msg) = "HttpError" => msg[2] = ToString(last'.code)
            /\ pc' = "done" => outcome' = Raised(msg) ]_vars

\* C18: no log line holds the API key in full. A key of 8 characters or more
\* is logged as the marker xxx... followed by its last 4 characters, a shorter
\* key as the placeholder [REDACTED], which is the same for every such key.
C18_KeyIsNeverLoggedInFull ==
    \A line \in logged :
        /\ ~includes(line, apiKey)
        /\ Len(apiKey) >= 8 =>
              /\ Len(line) = Len(RedactionMarker) + 4
              /\ SubSeq(line, 1, Len(RedactionMarker)) = RedactionMarker
              /\ \A i \in 1..4 :
                    line[Len(RedactionMarker) + i] = apiKey[Len(apiKey) - 4 + i]
        /\ Len(apiKey) < 8 => line = Redacted

C18_Witness ==
    /\ Len(apiKey) >= 8
    /\ logged # {}
    /\ fetches >= 1

C18_WitnessShortKey ==
    /\ Len(apiKey) < 8
    /\ logged # {}

\* The status codes whose error carries a detail: 422 and those without a
\* message of their own.
CarriesDetail(code) == code \notin {401, 429, 502, 503}

\* C19: in production mode the error of a failed request carries no text of
\* the service's response and no other internal error text, its detail being
\* the generic message of the status code; outside production mode the detail
\* of the response is passed through verbatim.
C19_ProductionErrorsAreGeneric ==
    [][ FetchFails =>
            LET msg == getResultError(last', pollingUrl, production) IN
            /\ (production /\ last'.kind = "http") =>
                  /\ last'.text # <<>> => ~includes(msg, last'.text)
                  /\ CarriesDetail(last'.code) => includes(msg, genericMessages(last'.code))
            /\ (production /\ last'.kind = "net") =>
                  ~includes(msg, TransportMessage(last'.net))
            /\ (~production /\ last'.kind = "http" /\ CarriesDetail(last'.code)
                    /\ last'.text # <<>>) =>
                  includes(msg, last'.text) ]_vars

\* C20: the Origin Validator's approval precedes every read and every fetch
\* of a referenced image. No HTTP request is sent for a reference it rejects,
\* no content of such a file is read, no conversion goes past such a
\* reference, and the command ends with an error.
C20_ApprovalPrecedesAccess ==
    /\ \A ref \in requested : OriginApproves(ref)
    /\ \A ref \in filesRead : OriginApproves(ref)
    /\ \A i \in 1..imgIdx : OriginApproves(imgRefs[i])
    /\ imgOutcome = "params" => \A i \in 1..Len(imgRefs) : OriginApproves(imgRefs[i])

\* A validation that has ended, of an https URL whose host is a name outside
\* the blocklist.
ResolvedNameValidated ==
    /\ vPc = "done"
    /\ vUrl.wellFormed
    /\ vUrl.scheme = "https"
    /\ vUrl.host.kind = "name"
    /\ ~isBlocklisted(vUrl.host.name)

\* 127.0.0.1, 10.0.0.1, 172.16.0.1, 192.168.1.1, 169.254.169.254, ::1, fe80::1
\* and fc00::1, and with them 172.31.0.1, febf::1 and fd00::1 of the same ranges.
InternalAddresses ==
    { V4Host(<<127, 0, 0, 1>>), V4Host(<<10, 0, 0, 1>>), V4Host(<<172, 16, 0, 1>>),
      V4Host(<<192, 168, 1, 1>>), V4Host(<<169, 254, 169, 254>>),
      V6Host(<<0, 0, 0, 0, 0, 0, 0, 1>>), V6Host(<<65152, 0, 0, 0, 0, 0, 0, 1>>),
      V6Host(<<64512, 0, 0, 0, 0, 0, 0, 1>>),
      V4Host(<<172, 31, 0, 1>>), V6Host(<<65215, 0, 0, 0, 0, 0, 0, 1>>),
      V6Host(<<64768, 0, 0, 0, 0, 0, 0, 1>>) }

\* C21: an https URL whose host is a name outside the blocklist is resolved,
\* and it is rejected for resolving to an internal or private address when the
\* resolved address is loopback, private, link-local or metadata (IPv4) or
\* loopback, link-local or unique-local (IPv6).
C21_RebindingIsRejected ==
    ResolvedNameValidated =>
        /\ vResolved # NoAnswer
        /\ (vResolved.kind = "address" /\ vResolved.addr \in InternalAddresses) =>
              /\ vVerdict.kind = "rejected"
              /\ vVerdict.reason = "ResolvesToPrivateAddress"
              /\ includes(vVerdict.msg, <<"resolves to internal/private IP">>)

C21_Witness ==
    /\ ResolvedNameValidated
    /\ vUrl.host.name = <<"evil", "com">>
    /\ vResolved.addr = V6Host(<<64512, 0, 0, 0, 0, 0, 0, 1>>)
    /\ vVerdict.kind = "rejected"

\* The URL with the other spelling of the prefix of its IPv4-mapped host.
otherSpelling(url) ==
    [url EXCEPT !.host.prefix = IF @ = "::ffff:" THEN "::FFFF:" ELSE "::ffff:"]

\* The URL whose host is the IPv4 address wrapped in the IPv4-mapped host.
unwrappedUrl(url) == [url EXCEPT !.host = V4Host(url.host.addr)]

\* C22: an https URL whose host is ::ffff:a.b.c.d is rejected whenever the URL
\* with host a.b.c.d is rejected, as a literal loopback or private address,
\* and both spellings of the prefix get the same verdict.
C22_MappedIsUnwrapped ==
    (vPc = "done" /\ vUrl.wellFormed /\ vUrl.scheme = "https"
        /\ vUrl.host.kind = "mapped") =>
        /\ validateStatic(unwrappedUrl(vUrl)).kind = "rejected" =>
              /\ vVerdict.kind = "rejected"
              /\ vVerdict.reason = "LiteralPrivateAddress"
        /\ V4Host(vUrl.host.addr) \in InternalAddresses => vVerdict.kind = "rejected"
        /\ validateStatic(otherSpelling(vUrl)).kind = vVerdict.kind
        /\ validateStatic(otherSpelling(vUrl)).msg = vVerdict.msg

C22_Witness ==
    /\ vPc = "done"
    /\ vUrl.scheme = "https"
    /\ vUrl.host = MappedHost("::FFFF:", <<127, 0, 0, 1>>)
    /\ vVerdict.kind = "rejected"
    /\ includes(vVerdict.msg, <<"localhost">>)

\* C23: a failed resolution never ends in Allowed. A not-found failure is
\* rejected with 'could not be resolved', any other failure with 'Failed to
\* validate domain', and neither message holds the other's words.
C23_ResolutionFailureIsRejected ==
    (vPc = "done" /\ vResolved.kind = "failure") =>
        /\ vVerdict.kind = "rejected"
        /\ IF vResolved.code = "ENOTFOUND"
           THEN /\ includes(vVerdict.msg, <<"could not be resolved">>)
                /\ ~includes(vVerdict.msg, <<"Failed to validate domain">>)
           ELSE /\ includes(vVerdict.msg, <<"Failed to validate domain">>)
                /\ ~includes(vVerdict.msg, <<"could not be resolved">>)

C23_Witness ==
    /\ vPc = "done"
    /\ vResolved.kind = "failure"
    /\ vResolved.code = "ETIMEDOUT"
    /\ vVerdict.kind = "rejected"

\* 8.8.8.8, 172.32.0.1 and 2001:4860::8888.
PublicAddresses ==
    { V4Host(<<8, 8, 8, 8>>), V4Host(<<172, 32, 0, 1>>),
      V6Host(<<8193, 18528, 0, 0, 0, 0, 0, 34952>>) }

\* C24: an https URL whose host is a name outside the blocklist and resolves
\* to a public address is allowed, and the validation hands back the URL as
\* it was given.
C24_PublicUrlIsAllowed ==
    (ResolvedNameValidated /\ vResolved.kind = "address"
        /\ vResolved.addr \in PublicAddresses) =>
        /\ vVerdict.kind = "allowed"
        /\ vVerdict.url = vUrl

C24_Witness ==
    /\ ResolvedNameValidated
    /\ vUrl.host.name = <<"example", "com">>
    /\ vResolved.addr = V4Host(<<8, 8, 8, 8>>)
    /\ vVerdict.kind = "allowed"

\* C25: the command exits with code 0 only if the generation of every prompt
\* of the batch has succeeded; with a failed one, whatever it failed in, the
\* code is not 0.
C25_ExitCodeTellsFailure ==
    cliPc = "exited" =>
        /\ exitCode # -1
        /\ exitCode = 0 =>
              /\ Len(results) = nPrompts
              /\ \A k \in 1..nPrompts : results[k].success /\ results[k].end = "complete"
        /\ (\E k \in 1..Len(results) : results[k].end # "complete") => exitCode # 0

C25_Witness ==
    /\ cliPc = "exited"
    /\ nPrompts = 3
    /\ Len(results) = 3
    /\ results[1].success
    /\ results[2].end = "polling"
    /\ results[3].success
    /\ exitCode = 1

\* C30: the prompts are taken in the order given, each once, and one at a
\* time: the generations started are 1, 2, 3, ..., at most one is in flight,
\* it is the latest one started, and the loop ends only when every prompt was
\* attempted, failed generations or not.
C30_BatchIsSequential ==
    /\ \A k \in 1..Len(started) : started[k] = k
    /\ Len(started) <= nPrompts
    /\ Cardinality(inFlight) <= 1
    /\ \A k \in inFlight : k = Len(started) /\ Len(results) = k - 1
    /\ inFlight = {} => Len(results) = Len(started)
    /\ \A k \in 1..Len(results) : results[k].prompt = k
    /\ (cliPc = "exited" /\ Len(started) > 0) => Len(started) = nPrompts

C30_Witness ==
    /\ cliPc = "generating"
    /\ nPrompts = 3
    /\ inFlight = {3}
    /\ ~results[1].success
    /\ ~results[2].success

\* C27: waitForResult returns only a result whose status is Ready, the one
\* its last fetch was answered with. A result of any other status, one
\* outside the defined statuses included, is never returned.
C27_OnlyReadyIsReturned ==
    outcome.kind = "returned" =>
        /\ pc = "done"
        /\ outcome.result = last
        /\ outcome.result.kind = "ok"
        /\ outcome.result.status = "Ready"
        /\ seenStatuses \ {"Ready"} # {} => fetches >= 2

C27_Witness ==
    /\ outcome.kind = "returned"
    /\ outcome.result.status = "Ready"
    /\ "Queued" \in seenStatuses
    /\ "Request Moderated" \in seenStatuses

\* The longest single sleep of the session: a poll interval, or the backoff
\* after the last retry.
LongestSleep ==
    (IF pollInterval > backoff(maxRetries) THEN pollInterval ELSE backoff(maxRetries))
    + MaxLate

\* C28: a call is over within timeout plus one request timeout plus one sleep
\* of its start: at no event of the session, its end included, more time than
\* that has passed, however late the service answers and whether the fetch
\* goes by task id or to a polling URL.
C28_EndsWithinBound ==
    now - startTime <= timeout + REQUEST_TIMEOUT + LongestSleep

\* C26: two sessions on one client share no state. A step that changes the
\* state of one session is a step of that session alone, taken as if the
\* other did not run; each retry counter stays within its own maxRetries and
\* each Timeout is raised past the session's own deadline.
C26_SessionsAreIsolated ==
    [][ /\ session' # session => Next
        /\ peer' # peer => PeerNext
        /\ retries' \in 0..maxRetries
        /\ peer'.retries \in 0..peer.maxRetries
        /\ outcome' = Raised(TimeoutMessage(timeout)) => now' - startTime > timeout
        /\ peer'.outcome = Raised(TimeoutMessage(peer.timeout)) =>
              peer'.now - peer.startTime > peer.timeout ]_vars

C26_Witness ==
    /\ pc = "done"
    /\ peer.pc = "done"
    /\ outcome.kind = "returned"
    /\ pollSleeps = 1
    /\ retries = 0
    /\ peer.retries = 2
    /\ peer.fetches = 2
    /\ peer.outcome = Raised(TimeoutMessage(peer.timeout))

\* C29: the API key goes only to https URLs. A client is constructed only
\* with an https base URL, and no status request carries the key to a URL of
\* another scheme, a supplied polling URL included.
C29_KeyOnlyOverHttps ==
    /\ clientPc = "ready" => baseScheme = "https"
    /\ keySentOver \subseteq {"https"}

====
